---- MODULE Spec2Model ----
(***************************************************************************)
(* A model of scripts/update_contributions.py: the paginated fetch of      *)
(* merged pull requests with its rate-limit retry loop, the categorizer,   *)
(* the HTML renderer and the marker-based patch of index.html.             *)
(*                                                                         *)
(* Python strings are TLA+ strings (sequences of characters): Len, SubSeq  *)
(* and \o are the only primitives used on them.  Python indices are        *)
(* 0-based; the operators below take and return 0-based indices where the  *)
(* source does, and convert at the SubSeq call.                            *)
(***************************************************************************)
EXTENDS Integers, Sequences, FiniteSets, TLC

VARIABLES
    world,        \* the API's data during this run: [total, head]
    file,         \* the content of index.html
    file0,        \* history: the content of index.html before the first run
    fileAtStart,  \* history: the content of index.html when this run began
    run,          \* the number of this run of the script (1, 2, ...)
    lastHtml,     \* history: the fragment written by the latest earlier run that wrote
    pc,           \* where main() is: fetch, fetched, categorized, rendered, exit
    exitCode,     \* the process's exit status, -1 while it runs
    page,         \* fetch_merged_prs: page
    all_prs,      \* fetch_merged_prs: all_prs
    attempts,     \* github_request: urlopen calls made by the current (or latest) call
    sleeps,       \* github_request: the time.sleep durations of the current (or latest) call
    status,       \* the HTTP status of the latest response, 0 before the first one
    retry_after,  \* the Retry-After header of the latest response: <<>> when absent
    categorized,  \* main: categorized
    html,         \* main: html
    reads,        \* how often this run opened index.html for reading
    writes        \* how often this run wrote index.html

vars == <<world, file, file0, fileAtStart, run, lastHtml, pc, exitCode, page, all_prs,
          attempts, sleeps, status, retry_after, categorized, html, reads, writes>>

----------------------------------------------------------------------------
(* Bounds of the model. *)

\* Reported totals go up to 100 * MaxHundreds + 1 results.
MaxHundreds == 11
\* The script is run at most MaxRuns times on the same file.
MaxRuns == 2
\* The categorizer is applied to every list of at most MaxPrs records.
MaxPrs == 3

----------------------------------------------------------------------------
(* Constants of the program. *)

per_page == 100
SEARCH_LIMIT == 1000
MAX_ATTEMPTS == 3
DEFAULT_RETRY_AFTER == "60"

EXCLUDED_REPOS == {"dream11/odin", "dream11/homebrew-tools"}

START_MARKER == "<!-- BEGIN CONTRIBUTIONS -->"
END_MARKER == "<!-- END CONTRIBUTIONS -->"

CHEVRON_SVG ==
    "<svg class=\"repo-chevron\" viewBox=\"0 0 24 24\" fill=\"none\" "
    \o "stroke=\"currentColor\" stroke-width=\"2\">"
    \o "<polyline points=\"9 18 15 12 9 6\"/></svg>"

\* A rule's match is `needle in repo`; OTHER_CATEGORY has no rule.  None is "".
CATEGORIES == <<
    [name |-> "Odin", link_text |-> "dream-horizon-org.github.io/odin",
     link_url |-> "https://dream-horizon-org.github.io/odin/", match |-> "odin"],
    [name |-> "Vert.x", link_text |-> "vertx.io",
     link_url |-> "https://vertx.io/", match |-> "vertx"] >>

OTHER_CATEGORY == [name |-> "Other", link_text |-> "", link_url |-> "", match |-> ""]

----------------------------------------------------------------------------
(* Python's built-ins, as the script uses them. *)

Min(a, b) == IF a <= b THEN a ELSE b
Max(a, b) == IF a >= b THEN a ELSE b

SetMin(S) == CHOOSE x \in S : \A y \in S : x <= y
SetMax(S) == CHOOSE x \in S : \A y \in S : x >= y

\* s[a:b] for 0 <= a, b <= len(s)
Slice(s, a, b) == SubSeq(s, a + 1, b)

\* The 0-based indices in lo..hi-len(sub) at which sub occurs in s.
Occurrences(s, sub, lo, hi) ==
    {i \in lo..(hi - Len(sub)) :
        /\ SubSeq(s, i + 1, i + 1) = SubSeq(sub, 1, 1)
        /\ SubSeq(s, i + 1, i + Len(sub)) = sub}

\* s.find(sub), for a non-empty sub
Find(s, sub) ==
    LET occ == Occurrences(s, sub, 0, Len(s))
    IN  IF occ = {} THEN -1 ELSE SetMin(occ)

\* s.rfind(sub, lo, hi), for a non-empty sub
RFind(s, sub, lo, hi) ==
    LET occ == Occurrences(s, sub, lo, hi)
    IN  IF occ = {} THEN -1 ELSE SetMax(occ)

\* sub in s
Contains(s, sub) == Find(s, sub) # -1

\* s.split(sep)[k] for a one-character sep and 0 <= k <= s.count(sep)
SplitPart(s, sep, k) ==
    LET cuts == {i \in 1..Len(s) : SubSeq(s, i, i) = sep}
        \* the 1-based position of the j-th separator, 0 and Len(s)+1 at the ends
        Cut(j) == IF j = 0 THEN 0
                  ELSE IF j > Cardinality(cuts) THEN Len(s) + 1
                  ELSE CHOOSE c \in cuts : Cardinality({d \in cuts : d < c}) = j - 1
    IN  SubSeq(s, Cut(k) + 1, Cut(k + 1) - 1)

Digits == <<"0", "1", "2", "3", "4", "5", "6", "7", "8", "9">>

DigitValue(c) == (CHOOSE d \in 1..10 : Digits[d] = c) - 1

\* int(s) for a non-empty string of decimal digits
RECURSIVE StrToInt(_)
StrToInt(s) ==
    IF Len(s) = 0 THEN 0
    ELSE 10 * StrToInt(SubSeq(s, 1, Len(s) - 1)) + DigitValue(SubSeq(s, Len(s), Len(s)))

\* str(n) / f"{n}" for n >= 0
RECURSIVE IntToStr(_)
IntToStr(n) ==
    IF n < 10 THEN Digits[n + 1]
    ELSE IntToStr(n \div 10) \o Digits[(n % 10) + 1]

\* sep.join(lines)
RECURSIVE Join(_, _)
Join(lines, sep) ==
    IF Len(lines) = 0 THEN ""
    ELSE IF Len(lines) = 1 THEN lines[1]
    ELSE Join(SubSeq(lines, 1, Len(lines) - 1), sep) \o sep \o lines[Len(lines)]

\* text.replace(old, new) for a one-character old
RECURSIVE Replace(_, _, _)
Replace(text, old, new) ==
    IF Len(text) = 0 THEN ""
    ELSE (IF SubSeq(text, 1, 1) = old THEN new ELSE SubSeq(text, 1, 1))
         \o Replace(SubSeq(text, 2, Len(text)), old, new)

\* sorted(pairs, key=lambda x: x[1], reverse=True) over <<value, key>> pairs: stable,
\* so pairs with equal keys keep their order.
RECURSIVE SortedDesc(_)
SortedDesc(pairs) ==
    IF Len(pairs) = 0 THEN <<>>
    ELSE LET rest == SortedDesc(SubSeq(pairs, 1, Len(pairs) - 1))
             x == pairs[Len(pairs)]
             \* x goes after every pair whose key is >= its own
             n == Cardinality({i \in 1..Len(rest) : rest[i][2] >= x[2]})
         IN  SubSeq(rest, 1, n) \o <<x>> \o SubSeq(rest, n + 1, Len(rest))

----------------------------------------------------------------------------
(* The simulated search API.  A world reports `total` results and serves   *)
(* them in pages of per_page; result i is head[i] while the head lasts and *)
(* a filler after it.  Most fillers belong to an excluded repository; the  *)
(* first and the last result of every full page do not.                    *)

PrUrl(repo, n) == "https://github.com/" \o repo \o "/pull/" \o IntToStr(n)

FillerRepo(i) ==
    IF i % per_page = 1 THEN "dream-horizon-org/odin"
    ELSE IF i % per_page = 0 THEN "eclipse-vertx/vert.x"
    ELSE IF i % 2 = 0 THEN "dream11/odin"
    ELSE "dream11/homebrew-tools"

FillerItem(i) == [html_url |-> PrUrl(FillerRepo(i), i), title |-> "Fix " \o IntToStr(i)]

ApiItem(w, i) == IF i <= Len(w.head) THEN w.head[i] ELSE FillerItem(i)

\* The JSON body of a successful response to ?per_page=100&page=p.
Response(w, p) ==
    LET first == (p - 1) * per_page + 1
        last == Min(p * per_page, w.total)
    IN  [total_count |-> w.total,
         items |-> [k \in 1..Max(0, last - first + 1) |-> ApiItem(w, first + k - 1)]]

Totals == {per_page * k + d : k \in 0..MaxHundreds, d \in {0, 1}}

\* Heads of the worlds with less than one page of results.
ExcludedItem == [html_url |-> PrUrl("dream11/odin", 7), title |-> "Excluded"]

SmallHeads == {
    <<ExcludedItem>>,
    <<ExcludedItem, [html_url |-> PrUrl("dream11/homebrew-tools", 2), title |-> "Tap"]>>,
    <<[html_url |-> PrUrl("akshaypatidar1999/notes", 4), title |-> "A & B <C> \"D\""]>>,
    <<[html_url |-> PrUrl("dream-horizon-org/odin", 3), title |-> "Three"],
      ExcludedItem,
      [html_url |-> PrUrl("vert-x3/vertx-odin", 12), title |-> "<!-- END CONTRIBUTIONS -->"],
      [html_url |-> PrUrl("dream-horizon-org/odin", 10), title |-> "Ten"]>> }

Worlds ==
    {[total |-> t, head |-> <<>>] : t \in Totals}
    \cup {[total |-> Len(h), head |-> h] : h \in SmallHeads}

HTTP_OK == 200
RateLimitStatuses == {403, 429}
OtherErrorStatuses == {404, 500}
\* Retry-After is absent, a number of seconds or (as HTTP allows) a date.
RetryAfterHeaders == {<<>>, <<"2">>, <<"Fri, 01 Jan 2027 00:00:00 GMT">>}

----------------------------------------------------------------------------
(* fetch_merged_prs and github_request *)

\* The record the body of `for item in items` builds from one item.
ParseItem(item) ==
    LET html_url == item.html_url
        owner == SplitPart(html_url, "/", 3)
        repo == SplitPart(html_url, "/", 4)
        pr_number == StrToInt(SplitPart(html_url, "/", 6))
    IN  [repo |-> owner \o "/" \o repo, pr_number |-> pr_number,
         title |-> item.title, url |-> html_url]

\* `if full_repo in EXCLUDED_REPOS: continue`
Excluded(full_repo) == full_repo \in EXCLUDED_REPOS

\* `for item in items`: the records appended to all_prs, in the order of the items.
ProcessItems(items) ==
    SelectSeq([k \in 1..Len(items) |-> ParseItem(items[k])],
              LAMBDA pr : ~Excluded(pr.repo))

\* A variant of LastPage that asks for one more page when the total is a multiple of
\* the page size.
LastPageStrict(p, total_count) == p * per_page > total_count \/ p * per_page >= SEARCH_LIMIT

\* `page * per_page >= total_count or page * per_page >= 1000`
LastPage(p, total_count) == p * per_page >= total_count \/ p * per_page >= SEARCH_LIMIT

\* The attempts made and the sleeps slept by the github_request call in progress:
\* none when the latest call has returned (or none was made yet).
CallAttempts == IF status \in {0, HTTP_OK} THEN 0 ELSE attempts
CallSleeps == IF status \in {0, HTTP_OK} THEN <<>> ELSE sleeps

\* e.headers.get("Retry-After", "60")
RetryAfterValue(header) == IF header = <<>> THEN DEFAULT_RETRY_AFTER ELSE header[1]

\* int(s) returns for a string of decimal digits and raises ValueError for a date.
IsDecimal(s) ==
    /\ Len(s) > 0
    /\ \A i \in 1..Len(s) : \E d \in 1..10 : Digits[d] = SubSeq(s, i, i)

\* A variant of RetryAfterSeconds that always sleeps the default.
RetryAfterIgnored(header) == StrToInt(DEFAULT_RETRY_AFTER)

\* retry_after = int(e.headers.get("Retry-After", "60"))
RetryAfterSeconds(header) == StrToInt(RetryAfterValue(header))

\* A variant of Retryable that retries every client and server error.
RetryableAnyError(code) == code >= 400

\* `if e.code in (403, 429)`
Retryable(code) == code \in {403, 429}

\* `if not items: break`
NoItems(items) == Len(items) = 0

\* The responses to the pages the script can ask a world for and the records it makes
\* of them, tabulated: they are evaluated once, not again in every state.  Any other
\* request is evaluated where it is made.
TablePages == 1..(SEARCH_LIMIT \div per_page)

ResponseTable == [w \in Worlds, p \in TablePages |-> Response(w, p)]
RecordsTable == [w \in Worlds, p \in TablePages |-> ProcessItems(ResponseTable[w, p].items)]

\* data = github_request(url, headers), on success
ResponseTo(w, p) ==
    IF w \in Worlds /\ p \in TablePages THEN ResponseTable[w, p] ELSE Response(w, p)

\* What `for item in items` appends for page p.
RecordsOf(w, p) ==
    IF w \in Worlds /\ p \in TablePages THEN RecordsTable[w, p]
    ELSE ProcessItems(Response(w, p).items)

\* urlopen succeeds: github_request returns the decoded body and the loop body of
\* fetch_merged_prs runs on it.
FetchPage ==
    /\ pc = "fetch"
    /\ CallAttempts < MAX_ATTEMPTS
    /\ LET data == ResponseTo(world, page)
           items == data.items
       IN  /\ attempts' = CallAttempts + 1
           /\ sleeps' = CallSleeps
           /\ status' = HTTP_OK
           /\ retry_after' = <<>>
           /\ IF NoItems(items)
              THEN /\ pc' = "fetched"
                   /\ UNCHANGED <<page, all_prs>>
              ELSE /\ all_prs' = all_prs \o RecordsOf(world, page)
                   /\ IF LastPage(page, data.total_count)
                      THEN pc' = "fetched" /\ page' = page
                      ELSE pc' = "fetch" /\ page' = page + 1
    /\ exitCode' = exitCode
    /\ UNCHANGED <<world, file, file0, fileAtStart, run, lastHtml, categorized, html,
                   reads, writes>>

\* urlopen raises HTTPError: the except branch of github_request.  A 403 or 429 sleeps
\* and continues the loop, which ends after the third attempt with sys.exit(1); any
\* other status exits at once.  A Retry-After that int() rejects ends the process with
\* an uncaught ValueError (status 1) before any sleep.
HttpError ==
    /\ pc = "fetch"
    /\ CallAttempts < MAX_ATTEMPTS
    /\ \E code \in RateLimitStatuses \cup OtherErrorStatuses, header \in RetryAfterHeaders :
        /\ attempts' = CallAttempts + 1
        /\ status' = code
        /\ retry_after' = header
        /\ IF Retryable(code) /\ IsDecimal(RetryAfterValue(header))
           THEN /\ sleeps' = Append(CallSleeps, RetryAfterSeconds(header))
                /\ IF attempts' < MAX_ATTEMPTS
                   THEN pc' = "fetch" /\ exitCode' = exitCode
                   ELSE pc' = "exit" /\ exitCode' = 1
           ELSE /\ sleeps' = CallSleeps
                /\ pc' = "exit"
                /\ exitCode' = 1
    /\ UNCHANGED <<world, file, file0, fileAtStart, run, lastHtml, page, all_prs,
                   categorized, html, reads, writes>>

----------------------------------------------------------------------------
(* categorize_prs *)

\* The keys of `repos`: a dict keeps its keys in the order of their first insertion.
RECURSIVE RepoNames(_)
RepoNames(prs) ==
    IF Len(prs) = 0 THEN <<>>
    ELSE LET before == RepoNames(SubSeq(prs, 1, Len(prs) - 1))
             name == prs[Len(prs)].repo
         IN  IF \E i \in 1..Len(before) : before[i] = name THEN before
             ELSE Append(before, name)

\* repos[repo_name]: the records of one repository, in input order.
RepoPrs(prs, repo_name) == SelectSeq(prs, LAMBDA pr : pr.repo = repo_name)

\* cat["match"](repo_name)
Matches(cat, repo_name) == Contains(repo_name, cat.match)

\* A variant of CategoryOf without the `break`: the last matching rule wins.
CategoryOfLastMatch(repo_name) ==
    IF \E k \in 1..Len(CATEGORIES) : Matches(CATEGORIES[k], repo_name)
    THEN CATEGORIES[SetMax({k \in 1..Len(CATEGORIES) : Matches(CATEGORIES[k], repo_name)})]
    ELSE OTHER_CATEGORY

\* The inner `for cat in CATEGORIES` loop: the first matching rule, else OTHER_CATEGORY.
CategoryOf(repo_name) ==
    IF \E k \in 1..Len(CATEGORIES) : Matches(CATEGORIES[k], repo_name)
    THEN CATEGORIES[SetMin({k \in 1..Len(CATEGORIES) : Matches(CATEGORIES[k], repo_name)})]
    ELSE OTHER_CATEGORY

\* A variant of SortPrs without reverse=True: ascending.
SortPrsAscending(repo_prs) ==
    LET sorted == SortedDesc([i \in 1..Len(repo_prs) |-> <<repo_prs[i], 0 - repo_prs[i].pr_number>>])
    IN  [i \in 1..Len(sorted) |-> sorted[i][1]]

\* sorted(repo_prs, key=lambda p: p["pr_number"], reverse=True)
SortPrs(repo_prs) ==
    LET sorted == SortedDesc([i \in 1..Len(repo_prs) |-> <<repo_prs[i], repo_prs[i].pr_number>>])
    IN  [i \in 1..Len(sorted) |-> sorted[i][1]]

\* categorized[name].items(): the repositories of one category, in the order of `repos`.
CategoryItems(prs, name) ==
    LET names == SelectSeq(RepoNames(prs), LAMBDA r : CategoryOf(r).name = name)
    IN  [i \in 1..Len(names) |-> [repo |-> names[i], prs |-> SortPrs(RepoPrs(prs, names[i]))]]

\* A variant of SortRepos that sorts ascending and reverses the result, which turns
\* the order of repositories with equal counts around.
SortReposReversed(items) ==
    LET asc == SortedDesc([i \in 1..Len(items) |-> <<items[i], 0 - Len(items[i].prs)>>])
    IN  [i \in 1..Len(asc) |-> asc[Len(asc) + 1 - i][1]]

\* OrderedDict(sorted(categorized[name].items(), key=lambda x: len(x[1]), reverse=True))
SortRepos(items) ==
    LET sorted == SortedDesc([i \in 1..Len(items) |-> <<items[i], Len(items[i].prs)>>])
    IN  [i \in 1..Len(sorted) |-> sorted[i][1]]

\* The result: CATEGORIES in declaration order, then OTHER_CATEGORY, each only when it
\* holds a repository.
categorize_prs(prs) ==
    LET configs == Append(CATEGORIES, OTHER_CATEGORY)
        present == SelectSeq(configs, LAMBDA cat : Len(CategoryItems(prs, cat.name)) > 0)
    IN  [i \in 1..Len(present) |->
            [name |-> present[i].name, config |-> present[i],
             repos |-> SortRepos(CategoryItems(prs, present[i].name))]]

----------------------------------------------------------------------------
(* html_escape and generate_contributions_html *)

html_escape(text) ==
    Replace(Replace(Replace(Replace(text, "&", "&amp;"), "<", "&lt;"), ">", "&gt;"),
            "\"", "&quot;")

\* One <a class="pr-item"> element.
PrLink(pr) ==
    "<a class=\"pr-item\" href=\"" \o pr.url \o "\" "
    \o "target=\"_blank\" rel=\"noopener\">"
    \o "<span class=\"pr-badge\">merged</span>"
    \o html_escape(pr.title) \o "</a>"

RECURSIVE PrLinks(_)
PrLinks(prs) ==
    IF Len(prs) = 0 THEN ""
    ELSE PrLinks(SubSeq(prs, 1, Len(prs) - 1)) \o PrLink(prs[Len(prs)])

CountLabel(pr_count) ==
    IF pr_count = 1 THEN IntToStr(pr_count) \o " PR" ELSE IntToStr(pr_count) \o " PRs"

\* The lines of `for repo_name, prs in repos.items()`.
RECURSIVE RepoLines(_)
RepoLines(repos) ==
    IF Len(repos) = 0 THEN <<>>
    ELSE LET r == repos[Len(repos)]
         IN  RepoLines(SubSeq(repos, 1, Len(repos) - 1)) \o <<
                 "            <details class=\"repo-item\">"
                 \o "<summary>" \o CHEVRON_SVG
                 \o "<span class=\"repo-name\">" \o r.repo \o "</span>"
                 \o "<span class=\"repo-count\">" \o CountLabel(Len(r.prs)) \o "</span>"
                 \o "</summary>"
                 \o "<div class=\"pr-list\">" \o PrLinks(r.prs) \o "</div></details>",
                 "" >>

OrgLabel(config) ==
    IF config.link_url # ""
    THEN "          <div class=\"org-label\">" \o config.name \o " "
         \o "<a href=\"" \o config.link_url \o "\" target=\"_blank\" "
         \o "rel=\"noopener\">" \o config.link_text \o "</a></div>"
    ELSE "          <div class=\"org-label\">" \o config.name \o "</div>"

\* The lines of `for cat_name, cat_data in categorized.items()`.
RECURSIVE CategoryLines(_)
CategoryLines(cats) ==
    IF Len(cats) = 0 THEN <<>>
    ELSE LET c == cats[Len(cats)]
         IN  CategoryLines(SubSeq(cats, 1, Len(cats) - 1))
             \o << "        <!-- " \o c.name \o " -->",
                   "        <div class=\"org-section\">",
                   OrgLabel(c.config),
                   "          <div class=\"repo-list\">",
                   "" >>
             \o RepoLines(c.repos)
             \o << "          </div>",
                   "        </div>",
                   "" >>

FragmentHead == "      <!-- BEGIN CONTRIBUTIONS -->"
FragmentTail == "      <!-- END CONTRIBUTIONS -->"

generate_contributions_html(cats) ==
    Join(<< FragmentHead,
            "      <div class=\"contributions\">",
            "        <h2>Open Source Contributions</h2>",
            "" >>
         \o CategoryLines(cats)
         \o << "      </div>",
               FragmentTail >>,
         "\n")

----------------------------------------------------------------------------
(* update_index_html *)

\* A variant of MarkersMissing that forgets the end marker.
MarkersMissingStartOnly(content) == Find(content, START_MARKER) = -1

\* `if start == -1 or end == -1`
MarkersMissing(content) ==
    Find(content, START_MARKER) = -1 \/ Find(content, END_MARKER) = -1

\* Where the replaced region starts: the marker's line start when a newline precedes
\* the marker, the marker itself otherwise.
RegionStart(content) ==
    LET start == Find(content, START_MARKER)
        line_start == RFind(content, "\n", 0, start)
    IN  IF line_start # -1 THEN line_start + 1 ELSE start

\* Where the replaced region ends.
RegionEnd(content) == Find(content, END_MARKER) + Len(END_MARKER)

\* new_content = content[:start] + new_html + content[end:]
NewContent(content, new_html) ==
    Slice(content, 0, RegionStart(content)) \o new_html
    \o Slice(content, RegionEnd(content), Len(content))

----------------------------------------------------------------------------
(* main *)

\* A variant of NoPrs that tests `prs is None`, which no list is.
NoPrsIsNone(prs) == FALSE

\* `if not prs`
NoPrs(prs) == Len(prs) = 0

MainNoPrs ==
    /\ pc = "fetched"
    /\ NoPrs(all_prs)
    /\ pc' = "exit"
    /\ exitCode' = 0
    /\ UNCHANGED <<world, file, file0, fileAtStart, run, lastHtml, page, all_prs, attempts,
                   sleeps, status, retry_after, categorized, html, reads, writes>>

Categorize ==
    /\ pc = "fetched"
    /\ ~NoPrs(all_prs)
    /\ categorized' = categorize_prs(all_prs)
    /\ pc' = "categorized"
    /\ UNCHANGED <<world, file, file0, fileAtStart, run, lastHtml, exitCode, page, all_prs,
                   attempts, sleeps, status, retry_after, html, reads, writes>>

Render ==
    /\ pc = "categorized"
    /\ html' = generate_contributions_html(categorized)
    /\ pc' = "rendered"
    /\ UNCHANGED <<world, file, file0, fileAtStart, run, lastHtml, exitCode, page, all_prs,
                   attempts, sleeps, status, retry_after, categorized, reads, writes>>

\* update_index_html(html), and the normal end of main after it.
UpdateIndexHtml ==
    /\ pc = "rendered"
    /\ reads' = reads + 1
    /\ pc' = "exit"
    /\ IF MarkersMissing(file)
       THEN /\ exitCode' = 1
            /\ UNCHANGED <<file, writes>>
       ELSE /\ file' = NewContent(file, html)
            /\ writes' = writes + 1
            /\ exitCode' = 0
    /\ UNCHANGED <<world, file0, fileAtStart, run, lastHtml, page, all_prs, attempts,
                   sleeps, status, retry_after, categorized, html>>

----------------------------------------------------------------------------
(* The runs of the script. *)

\* index.html as the repository ships it, and the shapes the claims speak about.
DefaultFile ==
    "<body>\n    <main>\n      " \o START_MARKER \o "\n      <div>old</div>\n      "
    \o END_MARKER \o "\n    </main>\n</body>\n"

Files == {
    DefaultFile,
    "PREFIX\n  " \o START_MARKER \o "\nOLD\n" \o END_MARKER \o "\nSUFFIX",
    "  " \o START_MARKER \o "\nOLD\n" \o END_MARKER \o "\nSUFFIX",
    START_MARKER \o "OLD" \o END_MARKER,
    "P\nfoo " \o START_MARKER \o "OLD" \o END_MARKER \o " bar\nS",
    "P\n" \o START_MARKER \o "\nA\n" \o END_MARKER \o "\nB\n  " \o START_MARKER
        \o "\nC\n" \o END_MARKER \o "\nS",
    "P\n" \o END_MARKER \o "\n" \o START_MARKER \o "\nS",
    "PREFIX\n" \o START_MARKER \o "\nSUFFIX",
    "PREFIX\n" \o END_MARKER \o "\nSUFFIX",
    "" }

\* A world with less than a page of results is run against every file, a larger one
\* against the shipped file.
SmallWorld(w) == w.total < per_page
FilesFor(w) == IF SmallWorld(w) THEN Files ELSE {DefaultFile}

\* The state main() starts a run in.
StartOfRun ==
    /\ pc = "fetch"
    /\ exitCode = -1
    /\ page = 1
    /\ all_prs = <<>>
    /\ attempts = 0
    /\ sleeps = <<>>
    /\ status = 0
    /\ retry_after = <<>>
    /\ categorized = <<>>
    /\ html = ""
    /\ reads = 0
    /\ writes = 0

Init ==
    /\ world \in Worlds
    /\ file \in FilesFor(world)
    /\ file0 = file
    /\ fileAtStart = file
    /\ run = 1
    /\ lastHtml = ""
    /\ StartOfRun

\* The script is started again on the file the last run left; the API's data may have
\* changed meanwhile (among the small worlds).
NextRun ==
    /\ pc = "exit"
    /\ run < MaxRuns
    /\ run' = run + 1
    /\ world' \in {world} \cup {w \in Worlds : SmallWorld(w) /\ SmallWorld(world)}
    /\ fileAtStart' = file
    /\ lastHtml' = IF writes > 0 THEN html ELSE lastHtml
    /\ pc' = "fetch"
    /\ exitCode' = -1
    /\ page' = 1
    /\ all_prs' = <<>>
    /\ attempts' = 0
    /\ sleeps' = <<>>
    /\ status' = 0
    /\ retry_after' = <<>>
    /\ categorized' = <<>>
    /\ html' = ""
    /\ reads' = 0
    /\ writes' = 0
    /\ UNCHANGED <<file, file0>>

Next == FetchPage \/ HttpError \/ MainNoPrs \/ Categorize \/ Render \/ UpdateIndexHtml \/ NextRun

Spec == Init /\ [][Next]_vars

----------------------------------------------------------------------------
(* main() from the return of fetch_merged_prs on, for every short list of records. *)

CatRecords ==
    {<<"dream-horizon-org/odin", n>> : n \in {3, 7, 10}}
    \cup {<<"vert-x3/vertx-odin", n>> : n \in {1, 12}}
    \cup {<<"eclipse-vertx/vert.x", 5>>, <<"akshaypatidar1999/notes", 4>>}

CatItems == {[html_url |-> PrUrl(r[1], r[2]), title |-> "PR " \o IntToStr(r[2])] : r \in CatRecords}

CatHeads == UNION {[1..n -> CatItems] : n \in 0..MaxPrs}

InitCat ==
    /\ \E h \in CatHeads :
        /\ world = [total |-> Len(h), head |-> h]
        /\ all_prs = ProcessItems(h)
    /\ file = DefaultFile
    /\ file0 = file
    /\ fileAtStart = file
    /\ run = 1
    /\ lastHtml = ""
    /\ pc = "fetched"
    /\ exitCode = -1
    /\ page = 1
    /\ attempts = 1
    /\ sleeps = <<>>
    /\ status = HTTP_OK
    /\ retry_after = <<>>
    /\ categorized = <<>>
    /\ html = ""
    /\ reads = 0
    /\ writes = 0

NextCat == MainNoPrs \/ Categorize \/ Render \/ UpdateIndexHtml

SpecCat == InitCat /\ [][NextCat]_vars

----------------------------------------------------------------------------
(* What the claims speak about. *)

\* fetch_merged_prs has returned in this run (a run that died in github_request ends
\* with the status of the error).
FetchReturned ==
    \/ pc \in {"fetched", "categorized", "rendered"}
    \/ pc = "exit" /\ status = HTTP_OK

CeilDiv(a, b) == (a + b - 1) \div b

\* The records of the first 1000 results of a world that are not of an excluded
\* repository, in the order the API lists them.
Yielded(w) ==
    SelectSeq([i \in 1..Min(w.total, 1000) |-> ParseItem(ApiItem(w, i))],
              LAMBDA pr : pr.repo \notin {"dream11/odin", "dream11/homebrew-tools"})

YieldedTable == [w \in Worlds |-> Yielded(w)]
YieldedBy(w) == IF w \in Worlds THEN YieldedTable[w] ELSE Yielded(w)

\* C1, as stated: once fetch_merged_prs has returned, it has requested exactly
\* min(10, ceil(T/100)) pages and all_prs holds the yielded records in API order,
\* without those of excluded repositories.
C1_PagesCeilOfTotal ==
    FetchReturned =>
        /\ page = Min(10, CeilDiv(world.total, 100))
        /\ all_prs = YieldedBy(world)

\* C1, amended: the number of pages requested is max(1, min(10, ceil(T/100))): the
\* first page is requested even when the total is 0.
C1_PagesAtLeastOne ==
    FetchReturned =>
        /\ page = Max(1, Min(10, CeilDiv(world.total, 100)))
        /\ all_prs = YieldedBy(world)

\* The fetch of a world with more than 1000 results stopped after its tenth page.
C1_Witness ==
    /\ FetchReturned
    /\ world.total > 1000
    /\ page = 10
    /\ Len(all_prs) = 20

\* The response's Retry-After header gives a duration: it is absent (60 seconds) or a
\* number of seconds.
GivesDuration(header) == header = <<>> \/ IsDecimal(header[1])
AskedWait(header) == IF header = <<>> THEN 60 ELSE StrToInt(header[1])

C2_State ==
    /\ attempts <= 3
    /\ (status \in {403, 429} /\ GivesDuration(retry_after)) =>
        /\ Len(sleeps) = attempts
        /\ sleeps[Len(sleeps)] = AskedWait(retry_after)
        /\ attempts < 3 => pc = "fetch" /\ exitCode = -1 /\ ENABLED FetchPage
        /\ attempts = 3 => pc = "exit" /\ exitCode = 1
    /\ status = 200 => Len(sleeps) = attempts - 1

C2_Step ==
    (status' \in {403, 429} /\ GivesDuration(retry_after') /\ run' = run) =>
        /\ page' = page
        /\ all_prs' = all_prs
        /\ attempts' = CallAttempts + 1
        /\ sleeps' = Append(CallSleeps, AskedWait(retry_after'))

C3_SingleWriteAtEnd ==
    /\ writes <= 1
    /\ writes = 0 => file = fileAtStart
    /\ writes = 1 =>
        /\ pc = "exit" /\ exitCode = 0
        /\ FetchReturned /\ all_prs = YieldedBy(world)
        /\ categorized = categorize_prs(all_prs)
        /\ html = generate_contributions_html(categorized)
        /\ reads = 1
        /\ Contains(fileAtStart, "<!-- BEGIN CONTRIBUTIONS -->")
        /\ Contains(fileAtStart, "<!-- END CONTRIBUTIONS -->")
    /\ (status \in {403, 429} /\ attempts = 3) => pc = "exit" /\ exitCode = 1
    /\ status \notin {0, 200, 403, 429} => pc = "exit" /\ exitCode = 1
    /\ (pc = "exit" /\ reads = 1
            /\ ~(/\ Contains(fileAtStart, "<!-- BEGIN CONTRIBUTIONS -->")
                 /\ Contains(fileAtStart, "<!-- END CONTRIBUTIONS -->")))
        => exitCode = 1
    /\ exitCode = 1 => writes = 0 /\ file = fileAtStart
    /\ exitCode \in {-1, 0, 1}

\* A run that got as far as update_index_html died there of a missing marker.
C3_Witness ==
    /\ pc = "exit"
    /\ exitCode = 1
    /\ reads = 1
    /\ html # ""

\* file[0:k] where k is the start of the line the first start marker is on.
BeforeMarkerLine(content) ==
    LET start == Find(content, "<!-- BEGIN CONTRIBUTIONS -->")
        breaks == {i \in 1..start : SubSeq(content, i, i) = "\n"}
    IN  IF breaks = {} THEN "" ELSE SubSeq(content, 1, SetMax(breaks))

\* What follows the first end marker.
AfterEndMarker(content) ==
    LET end == Find(content, "<!-- END CONTRIBUTIONS -->")
    IN  SubSeq(content, end + Len("<!-- END CONTRIBUTIONS -->") + 1, Len(content))

\* The first start marker precedes the first end marker.
MarkersInOrder(content) ==
    /\ Find(content, "<!-- BEGIN CONTRIBUTIONS -->") # -1
    /\ Find(content, "<!-- BEGIN CONTRIBUTIONS -->") < Find(content, "<!-- END CONTRIBUTIONS -->")

\* C4: when the start marker precedes the end marker, the written file is what
\* preceded the start marker's line, then the fragment, then what followed the end marker.
C4_RegionFromLineStart ==
    (writes = 1 /\ MarkersInOrder(fileAtStart)) =>
        file = BeforeMarkerLine(fileAtStart) \o html \o AfterEndMarker(fileAtStart)

\* C5: when fetch_merged_prs returns no record, main does nothing but exit with status
\* 0: index.html is neither opened nor changed.
C5_NoPrsNoTouch ==
    (FetchReturned /\ all_prs = <<>>) =>
        /\ pc \in {"fetched", "exit"}
        /\ pc = "fetched" => ENABLED MainNoPrs /\ ~ENABLED Categorize
        /\ pc = "exit" => exitCode = 0
        /\ reads = 0
        /\ writes = 0
        /\ file = fileAtStart

\* The API listed results, all of an excluded repository, and the run ended with status 0.
C5_Witness ==
    /\ pc = "exit"
    /\ exitCode = 0
    /\ world.total > 0
    /\ all_prs = <<>>
    /\ reads = 0

C6_State ==
    status \notin {0, 200, 403, 429} =>
        /\ pc = "exit"
        /\ exitCode = 1
        /\ Len(sleeps) = attempts - 1
        /\ ~ENABLED FetchPage
        /\ ~ENABLED HttpError

C6_Step ==
    (status' \notin {0, 200, 403, 429} /\ run' = run) =>
        /\ sleeps' = CallSleeps
        /\ attempts' = CallAttempts + 1
        /\ page' = page
        /\ exitCode' = 1

\* C6: a response with an error status other than 403 and 429 ends the process with
\* status 1 at that attempt: no sleep follows it and no request is made after it.
C6_OtherErrorsFatal == [](C6_State) /\ [][C6_Step]_vars

\* The second attempt at the third page was answered with a 500.
C6_Witness ==
    /\ status = 500
    /\ attempts = 2
    /\ page = 3
    /\ exitCode = 1

----------------------------------------------------------------------------
(* The categorizer and the renderer, on every short list of records. *)

\* categorize_prs has run in this state.
Categorized == pc \in {"categorized", "rendered"} \/ (pc = "exit" /\ ~NoPrs(all_prs))

\* The name of the first rule, in declaration order, whose needle is in the
\* repository's name; "Other" when there is none.
FirstRuleName(repo_name) ==
    IF \E k \in 1..Len(CATEGORIES) : Contains(repo_name, CATEGORIES[k].match)
    THEN LET k == CHOOSE j \in 1..Len(CATEGORIES) :
                    /\ Contains(repo_name, CATEGORIES[j].match)
                    /\ \A i \in 1..(j - 1) : ~Contains(repo_name, CATEGORIES[i].match)
         IN  CATEGORIES[k].name
    ELSE "Other"

\* The places <<c, r>> of the result: repository r of category c.
Places(cats) == UNION {{<<c, r>> : r \in 1..Len(cats[c].repos)} : c \in 1..Len(cats)}

\* How often a record occurs in a list.
Count(seq, x) == Cardinality({i \in 1..Len(seq) : seq[i] = x})

\* C7: every repository of the input is in exactly one place of the result, in the
\* category of its first matching rule ("Other" without one), and every record occurs
\* under its own repository as often as in the input, and nowhere else.
C7_OneCategoryAllRecords ==
    Categorized =>
        /\ \A i \in 1..Len(all_prs) :
            LET at == {p \in Places(categorized) :
                          categorized[p[1]].repos[p[2]].repo = all_prs[i].repo}
            IN  /\ Cardinality(at) = 1
                /\ \A p \in at :
                    /\ categorized[p[1]].name = FirstRuleName(all_prs[i].repo)
                    /\ Count(categorized[p[1]].repos[p[2]].prs, all_prs[i])
                           = Count(all_prs, all_prs[i])
        /\ \A p \in Places(categorized) :
            LET entry == categorized[p[1]].repos[p[2]]
            IN  \A k \in 1..Len(entry.prs) :
                    /\ entry.prs[k].repo = entry.repo
                    /\ Count(all_prs, entry.prs[k]) > 0
        /\ \A c, d \in 1..Len(categorized) : categorized[c].name = categorized[d].name => c = d

\* A repository matching both rules is under Odin, next to a repository under Other.
C7_Witness ==
    /\ Categorized
    /\ Len(categorized) = 2
    /\ categorized[1].name = "Odin"
    /\ categorized[1].repos[1].repo = "vert-x3/vertx-odin"
    /\ categorized[2].name = "Other"

\* The index of a repository's first record in the input.
FirstIndex(prs, repo_name) == SetMin({i \in 1..Len(prs) : prs[i].repo = repo_name})

\* C8: in every category of the result a repository with more pull requests precedes
\* one with fewer, and of two with equally many the one that occurs first in the input
\* precedes the other.
C8_ReposByCountThenInput ==
    Categorized =>
        \A c \in 1..Len(categorized) :
            \A i, j \in 1..Len(categorized[c].repos) :
                i < j =>
                    LET a == categorized[c].repos[i]
                        b == categorized[c].repos[j]
                    IN  \/ Len(a.prs) > Len(b.prs)
                        \/ /\ Len(a.prs) = Len(b.prs)
                           /\ FirstIndex(all_prs, a.repo) < FirstIndex(all_prs, b.repo)

\* A repository with two pull requests precedes one with a single pull request that
\* came first in the input.
C8_Witness ==
    /\ Categorized
    /\ Len(categorized[1].repos) = 2
    /\ Len(categorized[1].repos[1].prs) = 2
    /\ Len(categorized[1].repos[2].prs) = 1
    /\ all_prs[1].repo = categorized[1].repos[2].repo

\* The 0-based index of a pull request's link in the fragment.
LinkAt(fragment, pr) == Find(fragment, "href=\"" \o pr.url \o "\"")

\* C9: in every repository of the result the pull requests are in descending order of
\* their number, and once rendered their links are in the fragment in that order.
C9_PrsDescending ==
    Categorized =>
        \A p \in Places(categorized) :
            LET prs == categorized[p[1]].repos[p[2]].prs
            IN  \A i, j \in 1..Len(prs) :
                    i < j =>
                        /\ prs[i].pr_number >= prs[j].pr_number
                        /\ (html # "" /\ prs[i].pr_number # prs[j].pr_number) =>
                            /\ LinkAt(html, prs[i]) # -1
                            /\ LinkAt(html, prs[i]) < LinkAt(html, prs[j])

\* The pull requests 10, 3, 7 of one repository, listed in that order, are rendered
\* as 10, 7, 3.
C9_Witness ==
    /\ pc = "rendered"
    /\ [i \in 1..Len(all_prs) |-> all_prs[i].pr_number] = <<10, 3, 7>>
    /\ Len(categorized) = 1
    /\ [i \in 1..3 |-> categorized[1].repos[1].prs[i].pr_number] = <<10, 7, 3>>
    /\ LinkAt(html, categorized[1].repos[1].prs[1]) < LinkAt(html, categorized[1].repos[1].prs[2])
    /\ LinkAt(html, categorized[1].repos[1].prs[2]) < LinkAt(html, categorized[1].repos[1].prs[3])

----------------------------------------------------------------------------
(* Runs repeated on the same file. *)

\* C10: from a file whose start marker precedes its end marker, every run that writes
\* leaves a file whose start marker precedes its end marker, and a run that writes the
\* fragment the run before it wrote leaves the file as it found it.
C10_MarkersKeptAndIdempotent ==
    (pc = "exit" /\ writes = 1 /\ MarkersInOrder(file0)) =>
        /\ MarkersInOrder(file)
        /\ lastHtml = html => file = fileAtStart

\* The file has a line break before its first start marker.
NewlineBeforeMarker(content) ==
    \E i \in 1..Find(content, "<!-- BEGIN CONTRIBUTIONS -->") : SubSeq(content, i, i) = "\n"

\* The statement of C4 holds of every file with a line break before its start marker.
C4_AfterNewline ==
    (writes = 1 /\ MarkersInOrder(fileAtStart) /\ NewlineBeforeMarker(fileAtStart)) =>
        file = BeforeMarkerLine(fileAtStart) \o html \o AfterEndMarker(fileAtStart)

\* The statement of C10 holds of every first file with a line break before its start marker.
C10_AfterNewline ==
    (pc = "exit" /\ writes = 1 /\ MarkersInOrder(file0)) =>
        /\ MarkersInOrder(file)
        /\ (lastHtml = html /\ NewlineBeforeMarker(file0)) => file = fileAtStart

====
